---- MODULE Spec2Model ----
(***************************************************************************)
(* Model of the load-balanced, retrying, concurrent generation engine of   *)
(* mynted-bot: LoadBalancer (services/load_balancer.py) and ImageGenerator *)
(* (services/image_generator.py), and of the archive packager ZipSplitter  *)
(* (services/delivery.py).                                                 *)
(*                                                                         *)
(* All coroutines run on one asyncio event loop, so the code between two   *)
(* suspending awaits is one atomic step.  The pool's lock is only ever     *)
(* held across code without awaits, so taking it never suspends.  Each     *)
(* action below is one such step of one coroutine.                         *)
(*                                                                         *)
(* Time is the value of time.time(), in seconds, advanced by Tick.         *)
(* Texts (error messages) are sequences of one-character strings.          *)
(***************************************************************************)
EXTENDS Integers, Sequences, FiniteSets, TLC

\* ---------------------------------------------------------------- bounds
MaxJobs == 2          \* largest batch (len(prompts)) explored
MaxAccounts == 2      \* largest number of configured API keys explored
MaxCap == 2           \* largest settings.max_concurrent_per_account explored
MaxSlots == 2         \* largest total capacity (accounts * cap) explored
MaxTime == 60         \* the clock stops advancing here
LongTime == 185       \* the same, where a job waits out every acquire (LongSpec)
PatientTime == 60     \* LiveSpec: calls may outlast clock steps until here
MaxResults == 4       \* PackSpec: result indexes are below this
MaxGenerationId == 2  \* PackSpec: largest generation id
RushJobs == 5         \* RushSpec: prompts of the batch
RushAccounts == 2     \* RushSpec: configured API keys
RushCap == 2          \* RushSpec: settings.max_concurrent_per_account
MaxRequests == 2      \* OrchSpec: process_generation calls running for one user
MaxImages == 2        \* OrchSpec: largest image_count of a request
MaxCredits == 3       \* OrchSpec: largest balance the user starts with

\* ------------------------------------------------------ program constants
max_retries == 3                  \* ImageGenerator.__init__
retry_delay == 5                  \* ImageGenerator.__init__
AcquireTimeout == 60              \* acquire_account(timeout=60)
RateLimitCooldown == 45           \* release_account, rate limit
FailureCooldown == 30             \* release_account, consecutive failures
FailureThreshold == 3             \* release_account, consecutive failures

\* The clock advances in steps of the smallest delay of the program.
TickStep == retry_delay

VARIABLES
    accounts,        \* LoadBalancer.accounts: sequence of AccountStatus
    max_concurrent,  \* LoadBalancer._max_concurrent_per_account
    now,             \* time.time()
    total,           \* generate_batch: total = len(prompts)
    jobs,            \* one _generate_single_with_retry task per prompt index
    queue,           \* as_completed: finished tasks not yet consumed, in completion order
    batch,           \* generate_batch: its locals and its position, with the
                     \* history of its progress callback (calls, in_callback)
    streak,          \* history: per account, failed releases since its last successful one
    pack,            \* ZipSplitter.split_if_needed: its argument, position and result
    orch             \* one user's credit balance and the process_generation
                     \* calls running for that user

vars == <<accounts, max_concurrent, now, total, jobs, queue, batch, streak, pack,
          orch>>

\* ------------------------------------------------------------------ texts
UpperCase == <<"A","B","C","D","E","F","G","H","I","J","K","L","M",
               "N","O","P","Q","R","S","T","U","V","W","X","Y","Z">>
LowerCase == <<"a","b","c","d","e","f","g","h","i","j","k","l","m",
               "n","o","p","q","r","s","t","u","v","w","x","y","z">>

LowerChar(c) ==
    IF \E i \in 1..26 : UpperCase[i] = c
    THEN LowerCase[CHOOSE i \in 1..26 : UpperCase[i] = c]
    ELSE c

\* str.lower()
Lower(s) == [i \in 1..Len(s) |-> LowerChar(s[i])]

\* sub in s
Contains(s, sub) ==
    \E i \in 1..(Len(s) - Len(sub) + 1) : SubSeq(s, i, i + Len(sub) - 1) = sub

None == <<>>      \* an absent error text (error = None)

TxtRate == <<"r","a","t","e">>
TxtSafety == <<"s","a","f","e","t","y">>
TxtBlocked == <<"b","l","o","c","k","e","d">>
TxtInvalid == <<"i","n","v","a","l","i","d">>

NoAccountError ==
    <<"N","o"," ","a","v","a","i","l","a","b","l","e"," ",
      "A","P","I"," ","a","c","c","o","u","n","t","s">>
UnknownError == <<"U","n","k","n","o","w","n"," ","e","r","r","o","r">>

\* Error texts the backend is taken to answer with: result.error of
\* _generate_single, which turns every exception of the call into a failed
\* result (so the `except` branch of _generate_single_with_retry is never
\* entered from it).
ErrBlocked == <<"B","l","o","c","k","e","d">>
ErrSafety == <<"S","A","F","E","T","Y">>
ErrInvalid == <<"i","n","v","a","l","i","d"," ","k","e","y">>
ErrRate == <<"R","a","t","e"," ","l","i","m","i","t">>
ErrNoImage ==
    <<"N","o"," ","i","m","a","g","e"," ","i","n"," ",
      "r","e","s","p","o","n","s","e">>
ErrorTexts == {ErrBlocked, ErrSafety, ErrInvalid, ErrRate, ErrNoImage}

\* str(e) of the API's quota error, as _generate_single returns it in
\* result.error: the HTTP status with its name, without the word "rate".
Txt429 == <<"4","2","9">>
Err429 ==
    <<"4","2","9"," ","R","E","S","O","U","R","C","E","_",
      "E","X","H","A","U","S","T","E","D">>
QuotaTexts == {Err429, ErrRate, ErrNoImage}

\* Outcomes of one _generate_single call.
GenOutcomes ==
    {[success |-> TRUE, error |-> None]}
    \cup {[success |-> FALSE, error |-> e] : e \in ErrorTexts}

\* The same of a backend that is out of quota.
QuotaOutcomes ==
    {[success |-> TRUE, error |-> None]}
    \cup {[success |-> FALSE, error |-> e] : e \in QuotaTexts}

\* Every text an error field can hold.
Texts == ErrorTexts \cup QuotaTexts \cup {None, NoAccountError, UnknownError}

\* "rate" in (result.error or "").lower()
MentionsRate(error) == Contains(Lower(error), TxtRate)

\* result.error and any(x in result.error.lower() for x in ["safety", "blocked", "invalid"])
MentionsPolicy(error) ==
    /\ error # None
    /\ \E x \in {TxtSafety, TxtBlocked, TxtInvalid} : Contains(Lower(error), x)

\* The two tests, tabulated once over Texts.
RateTable == [e \in Texts |-> MentionsRate(e)]
PolicyTable == [e \in Texts |-> MentionsPolicy(e)]

IsRateLimited(error) == RateTable[error]
IsPolicy(error) == PolicyTable[error]

\* ------------------------------------------------------------ LoadBalancer
\* last_failure is written by release_account and read nowhere; it is left out.
NewAccount ==
    [active_requests |-> 0, total_requests |-> 0, failures |-> 0,
     consecutive_failures |-> 0, rate_limited_until |-> 0]

Max(a, b) == IF a >= b THEN a ELSE b

total_capacity == Len(accounts) * max_concurrent

available_capacity ==
    LET RECURSIVE Sum(_)
        Sum(i) ==
            IF i > Len(accounts) THEN 0
            ELSE (IF accounts[i].rate_limited_until <= now
                  THEN max_concurrent - accounts[i].active_requests
                  ELSE 0) + Sum(i + 1)
    IN Max(0, Sum(1))

Score(acc) ==
    acc.active_requests * 10 + acc.failures * 2 + acc.consecutive_failures * 5

\* Eligible with the cap test off by one (`>` for `>=`).
Eligible_CapOffByOne(acc, cap, t) ==
    /\ ~(acc.rate_limited_until > t)
    /\ ~(acc.active_requests > cap)

\* An account the selection loop does not skip.
Eligible(acc, cap, t) ==
    /\ ~(acc.rate_limited_until > t)
    /\ ~(acc.active_requests >= cap)

\* _get_best_account comparing with `<=`: of equal scores the last one wins.
GetBestAccount_LastWins(accts, cap, t) ==
    LET RECURSIVE Loop(_, _)
        Loop(i, best) ==
            IF i > Len(accts) THEN best
            ELSE IF ~Eligible(accts[i], cap, t) THEN Loop(i + 1, best)
            ELSE IF best = 0 \/ Score(accts[i]) <= Score(accts[best])
                 THEN Loop(i + 1, i)
                 ELSE Loop(i + 1, best)
    IN Loop(1, 0)

\* _get_best_account: index of the chosen account, 0 for None.
GetBestAccount(accts, cap, t) ==
    LET RECURSIVE Loop(_, _)
        \* best = 0 stands for best = None, best_score = inf
        Loop(i, best) ==
            IF i > Len(accts) THEN best
            ELSE IF ~Eligible(accts[i], cap, t) THEN Loop(i + 1, best)
            ELSE IF best = 0 \/ Score(accts[i]) < Score(accts[best])
                 THEN Loop(i + 1, i)
                 ELSE Loop(i + 1, best)
    IN Loop(1, 0)

\* acquire_account counting the request without occupying a slot.
TakeAccount_NoCount(accts, a) ==
    [accts EXCEPT ![a].total_requests = @ + 1]

\* acquire_account, the body of `if account:`
TakeAccount(accts, a) ==
    [accts EXCEPT ![a].active_requests = @ + 1,
                  ![a].total_requests = @ + 1]

\* release_account giving the slot back only on success.
ReleaseAccount_LeaksOnFailure(accts, a, success, rate_limited, t) ==
    IF success
    THEN [accts EXCEPT ![a].active_requests = Max(0, @ - 1),
                       ![a].consecutive_failures = 0]
    ELSE [accts EXCEPT ![a].failures = @ + 1,
                       ![a].consecutive_failures = @ + 1]

\* release_account with the consecutive-failure test off by one (`>` for `>=`).
ReleaseAccount_LateThreshold(accts, a, success, rate_limited, t) ==
    LET acc1 == [accts[a] EXCEPT !.active_requests = Max(0, @ - 1)]
        acc2 == IF success
                THEN [acc1 EXCEPT !.consecutive_failures = 0]
                ELSE [acc1 EXCEPT !.failures = @ + 1,
                                  !.consecutive_failures = @ + 1]
        acc3 == IF ~success /\ rate_limited
                THEN [acc2 EXCEPT !.rate_limited_until = t + RateLimitCooldown]
                ELSE acc2
        acc4 == IF ~success /\ acc3.consecutive_failures > FailureThreshold
                THEN [acc3 EXCEPT !.rate_limited_until = t + FailureCooldown]
                ELSE acc3
    IN [accts EXCEPT ![a] = acc4]

\* release_account keeping the later of the two cooldown deadlines.
ReleaseAccount_KeepsLater(accts, a, success, rate_limited, t) ==
    LET acc0 == accts[a]
        acc1 == [acc0 EXCEPT !.active_requests = Max(0, @ - 1)]
        acc2 == IF success
                THEN [acc1 EXCEPT !.consecutive_failures = 0]
                ELSE [acc1 EXCEPT !.failures = @ + 1,
                                  !.consecutive_failures = @ + 1]
        acc3 == IF ~success /\ rate_limited
                THEN [acc2 EXCEPT !.rate_limited_until = t + RateLimitCooldown]
                ELSE acc2
        acc4 == IF ~success /\ acc3.consecutive_failures >= FailureThreshold
                THEN [acc3 EXCEPT !.rate_limited_until =
                                      Max(@, t + FailureCooldown)]
                ELSE acc3
    IN [accts EXCEPT ![a] = acc4]

\* release_account giving back two slots, the floor at 0 hiding it.
ReleaseAccount_TwoSlots(accts, a, success, rate_limited, t) ==
    LET acc0 == accts[a]
        acc1 == [acc0 EXCEPT !.active_requests = Max(0, @ - 2)]
        acc2 == IF success
                THEN [acc1 EXCEPT !.consecutive_failures = 0]
                ELSE [acc1 EXCEPT !.failures = @ + 1,
                                  !.consecutive_failures = @ + 1]
        acc3 == IF ~success /\ rate_limited
                THEN [acc2 EXCEPT !.rate_limited_until = t + RateLimitCooldown]
                ELSE acc2
        acc4 == IF ~success /\ acc3.consecutive_failures >= FailureThreshold
                THEN [acc3 EXCEPT !.rate_limited_until = t + FailureCooldown]
                ELSE acc3
    IN [accts EXCEPT ![a] = acc4]

\* release_account
ReleaseAccount(accts, a, success, rate_limited, t) ==
    LET acc0 == accts[a]
        acc1 == [acc0 EXCEPT !.active_requests = Max(0, @ - 1)]
        acc2 == IF success
                THEN [acc1 EXCEPT !.consecutive_failures = 0]
                ELSE [acc1 EXCEPT !.failures = @ + 1,
                                  !.consecutive_failures = @ + 1]
        acc3 == IF ~success /\ rate_limited
                THEN [acc2 EXCEPT !.rate_limited_until = t + RateLimitCooldown]
                ELSE acc2
        acc4 == IF ~success /\ acc3.consecutive_failures >= FailureThreshold
                THEN [acc3 EXCEPT !.rate_limited_until = t + FailureCooldown]
                ELSE acc3
    IN [accts EXCEPT ![a] = acc4]


\* ---------------------------------------------------------- ImageGenerator
JobIds == 0..(total - 1)

\* A task created by generate_batch for prompt index i, not yet run.  The
\* fields acquires .. attempt_error are history: calls of acquire_account,
\* accounts obtained, calls of _generate_single, calls of release_account,
\* the delays passed to asyncio.sleep, in order, and the error text the
\* latest failed attempt ended with (None: an empty text).
NewJob ==
    [pc |-> "pending", attempt |-> 0, account |-> 0, start_time |-> 0,
     wake_at |-> 0, last_error |-> None, success |-> FALSE,
     acquires |-> 0, taken |-> 0, gen_calls |-> 0, releases |-> 0,
     sleeps |-> <<>>, attempt_error |-> None]

\* GenerationResult, as far as generate_batch reads it.
Result(i, success, error) == [index |-> i, success |-> success, error |-> error]

\* `account = await self.load_balancer.acquire_account(timeout=60)` up to its
\* first suspension, for loop iteration `attempt`: start_time is read, the
\* loop condition holds, and the first poll either takes an account (and
\* _generate_single is entered) or finds none (asyncio.sleep(0.5)).
BeginAttempt(job, attempt, accts, cap, t) ==
    LET a == GetBestAccount(accts, cap, t)
        j1 == [job EXCEPT !.attempt = attempt, !.acquires = @ + 1,
                          !.wake_at = 0]
    IN IF a # 0
       THEN [job |-> [j1 EXCEPT !.pc = "generating", !.account = a,
                                !.start_time = 0, !.taken = @ + 1,
                                !.gen_calls = @ + 1],
             accounts |-> TakeAccount(accts, a)]
       ELSE [job |-> [j1 EXCEPT !.pc = "polling", !.account = 0,
                                !.start_time = t],
             accounts |-> accts]

\* SleepsAfter without the test for the last attempt.
SleepsAfter_Always(attempt) == TRUE

\* The backoff asyncio.sleep is reached after attempt `attempt`.
SleepsAfter(attempt) == attempt < max_retries - 1

\* Backoff counting attempts from 0.
Backoff_OffByOne(attempt) == retry_delay * attempt

\* retry_delay * (attempt + 1)
Backoff(attempt) == retry_delay * (attempt + 1)

\* FailedJob that forgets last_error.
FailedJob_DropsError(job) ==
    [job EXCEPT !.pc = "done", !.success = FALSE, !.account = 0,
                !.start_time = 0, !.wake_at = 0, !.last_error = UnknownError]

\* The loop is left without a success: the final return of
\* _generate_single_with_retry.
FailedJob(job) ==
    [job EXCEPT !.pc = "done", !.success = FALSE, !.account = 0,
                !.start_time = 0, !.wake_at = 0,
                !.last_error = IF @ = None THEN UnknownError ELSE @]

\* Tasks created but not yet run.
Pending == {j \in JobIds : jobs[j].pc = "pending"}

\* The task starts running: loop iteration 0.  The event loop runs ready
\* tasks in the order of their creation, each up to its first suspension,
\* when generate_batch first awaits.
StartJob(j) ==
    /\ jobs[j].pc = "pending"
    /\ \A i \in Pending : j <= i
    /\ LET b == BeginAttempt(jobs[j], 0, accounts, max_concurrent, now)
       IN /\ jobs' = [jobs EXCEPT ![j] = b.job]
          /\ accounts' = b.accounts
    /\ UNCHANGED <<max_concurrent, now, total, queue, batch, streak, pack, orch>>

\* The deadline test measuring from the epoch instead of start_time.
Expired_NoStart(start_time, t) == ~(t < AcquireTimeout)

\* acquire_account: `while time.time() - start_time < timeout` is over.
Expired(start_time, t) == ~(t - start_time < AcquireTimeout)

\* acquire_account: a later poll of the while loop takes an account.
PollAcquire(j) ==
    /\ Pending = {}
    /\ jobs[j].pc = "polling"
    /\ ~Expired(jobs[j].start_time, now)
    /\ LET a == GetBestAccount(accounts, max_concurrent, now)
       IN /\ a # 0
          /\ accounts' = TakeAccount(accounts, a)
          /\ jobs' = [jobs EXCEPT ![j].pc = "generating", ![j].account = a,
                                  ![j].start_time = 0, ![j].taken = @ + 1,
                                  ![j].gen_calls = @ + 1]
    /\ UNCHANGED <<max_concurrent, now, total, queue, batch, streak, pack, orch>>

\* acquire_account returns None; `last_error = ...; continue` goes straight
\* to the next loop iteration, or ends the loop after the last one.
AcquireTimesOut(j) ==
    /\ Pending = {}
    /\ jobs[j].pc = "polling"
    /\ Expired(jobs[j].start_time, now)
    /\ LET j1 == [jobs[j] EXCEPT !.last_error = NoAccountError,
                                 !.attempt_error = NoAccountError]
       IN IF j1.attempt + 1 < max_retries
          THEN LET b == BeginAttempt(j1, j1.attempt + 1, accounts,
                                     max_concurrent, now)
               IN /\ jobs' = [jobs EXCEPT ![j] = b.job]
                  /\ accounts' = b.accounts
                  /\ queue' = queue
          ELSE /\ jobs' = [jobs EXCEPT ![j] = FailedJob(j1)]
               /\ accounts' = accounts
               /\ queue' = Append(queue, Result(j, FALSE, FailedJob(j1).last_error))
    /\ UNCHANGED <<max_concurrent, now, total, batch, streak, pack, orch>>

\* AfterRelease without the break on policy errors.
AfterRelease_RetriesPolicy(job, r, t) ==
    LET j1 == [job EXCEPT !.releases = @ + 1, !.account = 0]
        j2 == [j1 EXCEPT !.last_error = r.error, !.attempt_error = r.error]
    IN IF r.success
       THEN [j1 EXCEPT !.pc = "done", !.success = TRUE]
       ELSE IF SleepsAfter(j2.attempt)
            THEN [j2 EXCEPT !.pc = "sleeping",
                            !.wake_at = t + Backoff(j2.attempt),
                            !.sleeps = Append(@, Backoff(j2.attempt))]
       ELSE FailedJob(j2)

\* AfterRelease that keeps the first error it has seen.
AfterRelease_KeepsFirst(job, r, t) ==
    LET j1 == [job EXCEPT !.releases = @ + 1, !.account = 0]
        j2 == [j1 EXCEPT !.last_error = IF @ = None THEN r.error ELSE @,
                         !.attempt_error = r.error]
    IN IF r.success
       THEN [j1 EXCEPT !.pc = "done", !.success = TRUE]
       ELSE IF IsPolicy(r.error) THEN FailedJob(j2)
       ELSE IF SleepsAfter(j2.attempt)
            THEN [j2 EXCEPT !.pc = "sleeping",
                            !.wake_at = t + Backoff(j2.attempt),
                            !.sleeps = Append(@, Backoff(j2.attempt))]
       ELSE FailedJob(j2)

\* What the job does once _generate_single has returned `r` and the account
\* is released: return, break, sleep, or leave the loop.
AfterRelease(job, r, t) ==
    LET j1 == [job EXCEPT !.releases = @ + 1, !.account = 0]
        j2 == [j1 EXCEPT !.last_error = r.error, !.attempt_error = r.error]
    IN IF r.success
       THEN [j1 EXCEPT !.pc = "done", !.success = TRUE]
       ELSE IF IsPolicy(r.error) THEN FailedJob(j2)
       ELSE IF SleepsAfter(j2.attempt)
            THEN [j2 EXCEPT !.pc = "sleeping",
                            !.wake_at = t + Backoff(j2.attempt),
                            !.sleeps = Append(@, Backoff(j2.attempt))]
       ELSE FailedJob(j2)

\* _generate_single returns r; the account is released; the result is
\* classified.
GenerateReturns(j, r) ==
    /\ Pending = {}
    /\ jobs[j].pc = "generating"
    /\ LET a == jobs[j].account
           j1 == AfterRelease(jobs[j], r, now)
       IN /\ accounts' = ReleaseAccount(accounts, a, r.success,
                                        IsRateLimited(r.error), now)
          /\ streak' = [streak EXCEPT ![a] = IF r.success THEN 0 ELSE @ + 1]
          /\ jobs' = [jobs EXCEPT ![j] = j1]
          /\ queue' = IF j1.pc = "done"
                      THEN Append(queue, Result(j, j1.success, j1.last_error))
                      ELSE queue
    /\ UNCHANGED <<max_concurrent, now, total, batch, pack, orch>>

\* The backoff sleep ends: the next loop iteration.
WakeUp(j) ==
    /\ Pending = {}
    /\ jobs[j].pc = "sleeping"
    /\ now >= jobs[j].wake_at
    /\ LET b == BeginAttempt(jobs[j], jobs[j].attempt + 1, accounts,
                             max_concurrent, now)
       IN /\ jobs' = [jobs EXCEPT ![j] = b.job]
          /\ accounts' = b.accounts
    /\ UNCHANGED <<max_concurrent, now, total, queue, batch, streak, pack, orch>>

\* ---------------------------------------------------------- generate_batch
\* list.sort(key=lambda x: x.index): a stable sort by index.
RECURSIVE InsertByIndex(_, _)
InsertByIndex(sorted, x) ==
    IF sorted = <<>> THEN <<x>>
    ELSE IF x.index < Head(sorted).index THEN <<x>> \o sorted
    ELSE <<Head(sorted)>> \o InsertByIndex(Tail(sorted), x)

RECURSIVE SortByIndex(_)
SortByIndex(s) ==
    IF s = <<>> THEN <<>>
    ELSE InsertByIndex(SortByIndex(SubSeq(s, 1, Len(s) - 1)), s[Len(s)])

\* The loop waiting for one result more than there are tasks.
EndOfIteration_OneMore(b) ==
    IF b.completed = total + 1
    THEN [b EXCEPT !.pc = "returned",
                   !.successful = SortByIndex(@),
                   !.failed = SortByIndex(@)]
    ELSE [b EXCEPT !.pc = "collecting"]

\* The loop returning the lists in completion order.
EndOfIteration_Unsorted(b) ==
    IF b.completed = total
    THEN [b EXCEPT !.pc = "returned"]
    ELSE [b EXCEPT !.pc = "collecting"]

\* The for loop over as_completed ends after `total` results: sort, return.
EndOfIteration(b) ==
    IF b.completed = total
    THEN [b EXCEPT !.pc = "returned",
                   !.successful = SortByIndex(@),
                   !.failed = SortByIndex(@)]
    ELSE [b EXCEPT !.pc = "collecting"]

\* FileResult that keeps successes only.
FileResult_DropsFailed(b, result) ==
    IF result.success
    THEN [b EXCEPT !.successful = Append(@, result)]
    ELSE b

\* `if result.success: successful.append(result) else: failed.append(result)`
FileResult(b, result) ==
    IF result.success
    THEN [b EXCEPT !.successful = Append(@, result)]
    ELSE [b EXCEPT !.failed = Append(@, result)]

\* _call_progress(on_progress, completed, total, status) is entered: the
\* callback is invoked with the loop's counter and the batch size, its status
\* text naming result.index.
CallProgress(b, result) ==
    [b EXCEPT !.calls = Append(@, [completed |-> b.completed, total |-> total,
                                   index |-> result.index]),
              !.in_callback = @ + 1]

\* The loop iteration invoking the callback without awaiting it.
Collect_FireAndForget ==
    /\ Pending = {}
    /\ batch.pc = "collecting"
    /\ queue # <<>>
    /\ LET b1 == FileResult([batch EXCEPT !.completed = @ + 1], Head(queue))
       IN batch' = IF batch.on_progress
                   THEN EndOfIteration(CallProgress(b1, Head(queue)))
                   ELSE EndOfIteration(b1)
    /\ queue' = Tail(queue)
    /\ UNCHANGED <<accounts, max_concurrent, now, total, jobs, streak, pack, orch>>

\* One iteration of the as_completed loop: the next finished task's result
\* is filed and, with a callback, _call_progress is awaited.
Collect ==
    /\ Pending = {}
    /\ batch.pc = "collecting"
    /\ queue # <<>>
    /\ LET b1 == FileResult([batch EXCEPT !.completed = @ + 1], Head(queue))
       IN batch' = IF batch.on_progress
                   THEN [CallProgress(b1, Head(queue)) EXCEPT !.pc = "progress"]
                   ELSE EndOfIteration(b1)
    /\ queue' = Tail(queue)
    /\ UNCHANGED <<accounts, max_concurrent, now, total, jobs, streak, pack, orch>>

\* The awaited progress callback returns.
ProgressReturns ==
    /\ batch.pc = "progress"
    /\ batch' = EndOfIteration([batch EXCEPT !.in_callback = @ - 1])
    /\ UNCHANGED <<accounts, max_concurrent, now, total, jobs, queue, streak, pack, orch>>

\* ------------------------------------------------------------------- time
\* Timers fire on time: a poll of acquire_account (every 0.5 s), the end of
\* a backoff sleep and the wake-up of generate_batch by a finished task are
\* not overtaken by the clock.
NothingDue ==
    /\ Pending = {}
    /\ queue # <<>> => batch.pc = "progress"
    /\ \A j \in JobIds :
        /\ jobs[j].pc = "sleeping" => now < jobs[j].wake_at
        /\ jobs[j].pc = "polling" =>
              /\ ~Expired(jobs[j].start_time, now)
              /\ GetBestAccount(accounts, max_concurrent, now) = 0

\* Something reads the clock later on: a task in a backoff sleep or polling
\* for an account, or an account in cooldown.  Otherwise the passing of time
\* changes nothing the program does, and the clock is left alone.
TimerPending ==
    \/ \E j \in JobIds : jobs[j].pc \in {"sleeping", "polling"}
    \/ \E a \in DOMAIN accounts : accounts[a].rate_limited_until > now

\* The clock moves on by one step, up to `limit`.
Advance(limit) ==
    /\ now + TickStep <= limit
    /\ NothingDue
    /\ TimerPending
    /\ now' = now + TickStep
    /\ UNCHANGED <<accounts, max_concurrent, total, jobs, queue, batch, streak, pack, orch>>

Tick == Advance(MaxTime)

LongTick == Advance(LongTime)

\* A generation call or a progress callback that has not returned yet.
CallInFlight ==
    \/ \E j \in JobIds : jobs[j].pc = "generating"
    \/ batch.pc = "progress"

\* LiveSpec's clock stops advancing here: later than the end of any batch,
\* whose jobs make at most max_retries attempts each, none waiting longer
\* for an account than a cooldown nor sleeping longer than the last backoff.
LiveTime ==
    PatientTime + TickStep
    + MaxJobs * max_retries * (RateLimitCooldown + Backoff(max_retries - 1))

\* The clock where every call returns: up to PatientTime a call may take
\* any number of clock steps, later on it returns within the step.
LiveTick ==
    /\ now < PatientTime \/ ~CallInFlight
    /\ Advance(LiveTime)

\* ------------------------------------------------------------ ZipSplitter
MB == 1024 * 1024

\* ZipSplitter.MAX_SIZE_BYTES
MAX_SIZE_BYTES == 50 * MB

\* The threshold compared against MAX_SIZE_BYTES itself.
Threshold_NoMargin == MAX_SIZE_BYTES

\* MAX_SIZE_BYTES * 0.9, a whole number of bytes.
Threshold == (MAX_SIZE_BYTES * 9) \div 10

Digits == <<"0","1","2","3","4","5","6","7","8","9">>

\* The file name numbered from 0.
FileName_ZeroBased(index) ==
    LET n == index
    IN <<"i","m","a","g","e","_">>
       \o <<Digits[((n \div 100) % 10) + 1], Digits[((n \div 10) % 10) + 1],
            Digits[(n % 10) + 1]>>
       \o <<".","p","n","g">>

\* f"image_{index + 1:03d}.png"
FileName(index) ==
    LET n == index + 1
    IN <<"i","m","a","g","e","_">>
       \o <<Digits[((n \div 100) % 10) + 1], Digits[((n \div 10) % 10) + 1],
            Digits[(n % 10) + 1]>>
       \o <<".","p","n","g">>

\* zf.writestr(filename, result.image_data): the entry written for a result.
Entry(result) == [name |-> FileName(result.index), size |-> result.size]

\* sum(len(r.image_data or b"") for r in results)
RECURSIVE TotalSize(_)
TotalSize(results) ==
    IF results = <<>> THEN 0
    ELSE Head(results).size + TotalSize(Tail(results))

\* The single archive of the first branch: every result with image data.
RECURSIVE SingleZip(_)
SingleZip(results) ==
    IF results = <<>> THEN <<>>
    ELSE IF Head(results).size > 0
         THEN <<Entry(Head(results))>> \o SingleZip(Tail(results))
         ELSE SingleZip(Tail(results))

\* The split test closing the archive already at the threshold.
Exceeds_OrEqual(current_size, image_size) ==
    current_size + image_size >= Threshold

\* `current_size + image_size > MAX_SIZE_BYTES * 0.9`
Exceeds(current_size, image_size) ==
    current_size + image_size > Threshold

\* The loop opening a new archive without writing the payload that did
\* not fit.
RECURSIVE SplitLoop_DropsOnSplit(_, _, _, _, _)
SplitLoop_DropsOnSplit(results, i, zips, current, current_size) ==
    IF i > Len(results) THEN Append(zips, current)
    ELSE IF results[i].size = 0
         THEN SplitLoop_DropsOnSplit(results, i + 1, zips, current, current_size)
    ELSE IF Exceeds(current_size, results[i].size)
         THEN SplitLoop_DropsOnSplit(results, i + 1, Append(zips, current),
                                     <<>>, 0)
    ELSE SplitLoop_DropsOnSplit(results, i + 1, zips,
                                Append(current, Entry(results[i])),
                                current_size + results[i].size)

\* The loop of the second branch from result i on: zips are the archives
\* closed so far, current the open one and current_size its payload bytes.
RECURSIVE SplitLoop(_, _, _, _, _)
SplitLoop(results, i, zips, current, current_size) ==
    IF i > Len(results) THEN Append(zips, current)
    ELSE IF results[i].size = 0
         THEN SplitLoop(results, i + 1, zips, current, current_size)
    ELSE IF Exceeds(current_size, results[i].size)
         THEN SplitLoop(results, i + 1, Append(zips, current),
                        <<Entry(results[i])>>, results[i].size)
    ELSE SplitLoop(results, i + 1, zips, Append(current, Entry(results[i])),
                   current_size + results[i].size)

\* ZipSplitter.split_if_needed: the archives returned, each the sequence of
\* its entries.
split_if_needed(results) ==
    IF TotalSize(results) < Threshold
    THEN <<SingleZip(results)>>
    ELSE SplitLoop(results, 1, <<>>, <<>>, 0)

ReadmeName == <<"R","E","A","D","M","E",".","t","x","t">>

\* zf.writestr("README.txt", self._create_readme(generation_id, image_count)):
\* the entry, with the two values the text is made of.
Readme(generation_id, image_count) ==
    [name |-> ReadmeName, size |-> 0, generation_id |-> generation_id,
     image_count |-> image_count]

\* DeliveryService._create_zip: one archive with every result that has image
\* data, and the readme.
create_zip(results, generation_id) ==
    Append(SingleZip(results), Readme(generation_id, Len(results)))

\* Nothing is being packaged.
NoPack == [pc |-> "idle", results |-> <<>>, generation_id |-> 0, zips |-> <<>>]

\* deliver_batch is handed results.successful: the archive it attaches to the
\* summary message, none when there is no successful result.
DeliverBatch ==
    /\ pack.pc = "called"
    /\ \A i \in 1..Len(pack.results) : pack.results[i].size > 0
    /\ pack' = [pack EXCEPT
                  !.pc = "delivered",
                  !.zips = IF Len(pack.results) = 0 THEN <<>>
                           ELSE <<create_zip(pack.results, pack.generation_id)>>]
    /\ UNCHANGED <<accounts, max_concurrent, now, total, jobs, queue, batch,
                   streak, orch>>

\* split_if_needed runs on the results handed to it.
SplitIfNeeded ==
    /\ pack.pc = "called"
    /\ pack' = [pack EXCEPT !.pc = "returned",
                            !.zips = split_if_needed(pack.results)]
    /\ UNCHANGED <<accounts, max_concurrent, now, total, jobs, queue, batch,
                   streak, orch>>

\* ------------------------------------------------------------ orchestrator
\* Orchestrator.process_generation, with UserService and User: the credits
\* of one user and the requests running for that user. Every call of
\* UserService opens its own session and commits it; a step below is the
\* code from one await that other requests may overtake to the next.

\* User.has_credits
has_credits(credits, amount) == credits >= amount

\* User.use_credits, as UserService.use_credits calls it: the balance after.
use_credits(credits, amount) ==
    IF has_credits(credits, amount) THEN credits - amount ELSE credits

\* User.add_credits, as UserService.refund_credits calls it.
refund_credits(credits, amount) == credits + amount

\* A request process_generation has just been called with.
NewRequest(image_count) ==
    [pc |-> "start",
     image_count |-> image_count,
     successful |-> 0,        \* len(results.successful)
     failed |-> 0,            \* len(results.failed)
     stage |-> "none",        \* history: the stage the request was given up at
     deducted |-> 0,          \* history: credits use_credits took for it
     refunded |-> 0,          \* history: credits refund_credits gave back for it
     refund_calls |-> <<>>,   \* history: the amounts refund_credits was called with
     engine_calls |-> 0]      \* history: calls of generate_batch

\* No request is running.
NoOrch == [credits |-> 0, requests |-> <<>>]

RequestIds == DOMAIN orch.requests

\* The request after refund_credits has been called for it with `amount`.
Refunded(r, amount) ==
    [r EXCEPT !.refunded = @ + amount,
              !.refund_calls = Append(@, amount)]

\* The user is loaded and the balance is compared with image_count: the
\* request goes on only when it is covered.
GetUser(i) ==
    LET r == orch.requests[i]
    IN /\ r.pc = "start"
       /\ orch' = [orch EXCEPT !.requests[i] =
                     IF has_credits(orch.credits, r.image_count)
                     THEN [r EXCEPT !.pc = "checked"]
                     ELSE [r EXCEPT !.pc = "done", !.stage = "credits"]]
       /\ UNCHANGED <<accounts, max_concurrent, now, total, jobs, queue, batch,
                      streak, pack>>

\* After the brand profile and the generation record, use_credits loads the
\* user again and takes image_count credits when the balance then covers
\* them; process_generation does not look at what it returns.
UseCredits(i) ==
    LET r == orch.requests[i]
        charged == has_credits(orch.credits, r.image_count)
    IN /\ r.pc = "checked"
       /\ orch' = [orch EXCEPT
                     !.credits = use_credits(@, r.image_count),
                     !.requests[i] =
                        [r EXCEPT !.pc = "context",
                                  !.deducted = IF charged THEN r.image_count
                                               ELSE 0]]
       /\ UNCHANGED <<accounts, max_concurrent, now, total, jobs, queue, batch,
                      streak, pack>>

\* The request after a stage before the engine has raised: image_count
\* credits are refunded and process_generation returns.
StageFailed(o, i, stage) ==
    LET r == o.requests[i]
    IN [o EXCEPT !.credits = refund_credits(@, r.image_count),
                 !.requests[i] =
                    [Refunded(r, r.image_count) EXCEPT !.pc = "done",
                                                       !.stage = stage]]

\* build_context returns or raises.
BuildContext(i, ok) ==
    /\ orch.requests[i].pc = "context"
    /\ orch' = IF ok THEN [orch EXCEPT !.requests[i].pc = "prompts"]
               ELSE StageFailed(orch, i, "context")
    /\ UNCHANGED <<accounts, max_concurrent, now, total, jobs, queue, batch,
                   streak, pack>>

\* create_prompts returns image_count prompts, and generate_batch is called
\* with them, or it raises.
CreatePrompts(i, ok) ==
    /\ orch.requests[i].pc = "prompts"
    /\ orch' = IF ok THEN [orch EXCEPT !.requests[i].pc = "engine",
                                       !.requests[i].engine_calls = @ + 1]
               ELSE StageFailed(orch, i, "prompts")
    /\ UNCHANGED <<accounts, max_concurrent, now, total, jobs, queue, batch,
                   streak, pack>>

\* Mutant of AfterBatch: any failure refunds the whole request.
AfterBatch_RefundsAll(o, i, failed) ==
    LET r == [o.requests[i] EXCEPT !.pc = "done",
                                   !.failed = failed,
                                   !.successful = @ + (o.requests[i].image_count - failed)]
    IN IF failed > 0
       THEN [o EXCEPT !.credits = refund_credits(@, r.image_count),
                      !.requests[i] = Refunded(r, r.image_count)]
       ELSE [o EXCEPT !.requests[i] = r]

\* generate_batch has returned a BatchResult with `failed` failed results
\* out of image_count: they are refunded when there are any, and the request
\* is completed and delivered.
AfterBatch(o, i, failed) ==
    LET r == [o.requests[i] EXCEPT !.pc = "done",
                                   !.failed = failed,
                                   !.successful = @ + (o.requests[i].image_count - failed)]
    IN IF failed > 0
       THEN [o EXCEPT !.credits = refund_credits(@, failed),
                      !.requests[i] = Refunded(r, failed)]
       ELSE [o EXCEPT !.requests[i] = r]

\* generate_batch returns: every prompt has ended in one of the two lists.
GenerateBatchReturns(i, failed) ==
    /\ orch.requests[i].pc = "engine"
    /\ failed <= orch.requests[i].image_count
    /\ orch' = AfterBatch(orch, i, failed)
    /\ UNCHANGED <<accounts, max_concurrent, now, total, jobs, queue, batch,
                   streak, pack>>

\* ------------------------------------------------------------ cancellation
\* The event loop cancels every unfinished task of the batch (the bot is
\* closed): CancelledError is raised at the await each of them is suspended
\* at. No handler of generate_batch or _generate_single_with_retry catches
\* it (it is no Exception): a task awaiting _generate_single leaves without
\* release_account, no task returns a GenerationResult, and generate_batch
\* returns no BatchResult.
CancelAll ==
    /\ batch.pc \in {"collecting", "progress"}
    /\ jobs' = [j \in JobIds |->
                  IF jobs[j].pc = "done" THEN jobs[j]
                  ELSE [jobs[j] EXCEPT !.pc = "cancelled"]]
    /\ batch' = [batch EXCEPT !.pc = "cancelled"]
    /\ UNCHANGED <<accounts, max_concurrent, now, total, queue, streak, pack,
                   orch>>

\* ---------------------------------------------------------- specification
\* The state when generate_batch has created its tasks, on a fresh pool of
\* n accounts with cap slots each, for `count` prompts.
Engine(n, cap, count, cb) ==
    /\ accounts = [i \in 1..n |-> NewAccount]
    /\ max_concurrent = cap
    /\ now = 0
    /\ total = count
    /\ jobs = [j \in 0..(count - 1) |-> NewJob]
    /\ queue = <<>>
    /\ batch = [pc |-> "collecting", successful |-> <<>>, failed |-> <<>>,
                completed |-> 0, on_progress |-> cb,
                calls |-> <<>>, in_callback |-> 0]
    /\ streak = [i \in 1..n |-> 0]

\* The same, nothing being packaged.
Start(n, cap, count, cb) ==
    /\ Engine(n, cap, count, cb)
    /\ pack = NoPack
    /\ orch = NoOrch

Init ==
    \E n \in 1..MaxAccounts, cap \in 1..MaxCap, count \in 1..MaxJobs, cb \in BOOLEAN :
        /\ n * cap <= MaxSlots
        /\ Start(n, cap, count, cb)

\* A step of one task, its generation calls answering with one of `outcomes`.
JobStepWith(outcomes) ==
    \/ \E j \in JobIds : StartJob(j)
    \/ \E j \in JobIds : PollAcquire(j)
    \/ \E j \in JobIds : AcquireTimesOut(j)
    \/ \E j \in JobIds, r \in outcomes : GenerateReturns(j, r)
    \/ \E j \in JobIds : WakeUp(j)

JobStep == JobStepWith(GenOutcomes)

Next ==
    \/ JobStep
    \/ Collect
    \/ ProgressReturns
    \/ Tick

Spec == Init /\ [][Next]_vars

\* More jobs than slots on one account without a callback, over a time long
\* enough for max_retries acquire timeouts in a row.
LongInit == Start(1, 1, MaxJobs, FALSE)

LongNext ==
    \/ JobStep
    \/ Collect
    \/ LongTick

LongSpec == LongInit /\ [][LongNext]_vars

\* The same against a backend whose failures are transient, among them an
\* exception without a message (str(e) == "").
MixOutcomes ==
    {[success |-> TRUE, error |-> None], [success |-> FALSE, error |-> None],
     [success |-> FALSE, error |-> ErrNoImage],
     [success |-> FALSE, error |-> ErrRate]}

MixNext ==
    \/ JobStepWith(MixOutcomes)
    \/ Collect
    \/ LongTick

MixSpec == LongInit /\ [][MixNext]_vars

\* The same batches against a backend that is out of quota.
QuotaInit ==
    \E n \in 1..MaxAccounts, cap \in 1..MaxCap, count \in 1..MaxJobs :
        /\ n * cap <= MaxSlots
        /\ Start(n, cap, count, FALSE)

QuotaNext ==
    \/ JobStepWith(QuotaOutcomes)
    \/ Collect
    \/ Tick

QuotaSpec == QuotaInit /\ [][QuotaNext]_vars

\* A batch of MaxJobs prompts with a callback on one account of one slot,
\* where the event loop keeps running whatever is ready, every generation
\* call and every progress callback returns, and time passes.
LiveInit == Start(1, 1, MaxJobs, TRUE)

LiveNext ==
    \/ JobStep
    \/ Collect
    \/ ProgressReturns
    \/ LiveTick

LiveSpec ==
    /\ LiveInit
    /\ [][LiveNext]_vars
    /\ WF_vars(JobStep)
    /\ WF_vars(Collect)
    /\ WF_vars(ProgressReturns)
    /\ WF_vars(LiveTick)

\* More prompts than the pool has slots: every generation call is final, it
\* succeeds or is refused for policy, so no task ever sleeps or wakes up.
RushOutcomes ==
    {[success |-> TRUE, error |-> None], [success |-> FALSE, error |-> ErrBlocked]}

RushInit == Start(RushAccounts, RushCap, RushJobs, FALSE)

RushNext ==
    \/ \E j \in JobIds : StartJob(j)
    \/ \E j \in JobIds : PollAcquire(j)
    \/ \E j \in JobIds : AcquireTimesOut(j)
    \/ \E j \in JobIds, r \in RushOutcomes : GenerateReturns(j, r)
    \/ Collect
    \/ Tick

RushSpec == RushInit /\ [][RushNext]_vars

\* Result lists split_if_needed is called with: results of ascending index,
\* any of the indexes below MaxResults missing, each with image data of one
\* of ResultSizes bytes (0: no image data).
ResultSizes == {0, 5 * MB, 10 * MB, 30 * MB, 60 * MB}

RECURSIVE ResultLists(_)
ResultLists(i) ==
    IF i = MaxResults THEN {<<>>}
    ELSE LET rest == ResultLists(i + 1)
         IN rest \cup {<<[index |-> i, size |-> s]>> \o r :
                          s \in ResultSizes, r \in rest}

\* split_if_needed or deliver_batch is called while no batch is running;
\* deliver_batch only with successful results, which all have image data.
PackInit ==
    /\ Engine(1, 1, 0, FALSE)
    /\ \E results \in ResultLists(0), g \in 1..MaxGenerationId :
          pack = [pc |-> "called", results |-> results, generation_id |-> g,
                  zips |-> <<>>]
    /\ orch = NoOrch

PackNext ==
    \/ SplitIfNeeded
    \/ DeliverBatch

PackSpec == PackInit /\ [][PackNext]_vars

\* MaxRequests calls of process_generation for one user, each for up to
\* MaxImages images, running together on a balance of up to MaxCredits.
OrchInit ==
    /\ Engine(1, 1, 0, FALSE)
    /\ pack = NoPack
    /\ \E credits \in 0..MaxCredits, counts \in [1..MaxRequests -> 1..MaxImages] :
          orch = [credits |-> credits,
                  requests |-> [i \in 1..MaxRequests |-> NewRequest(counts[i])]]

OrchNext ==
    \/ \E i \in RequestIds : GetUser(i)
    \/ \E i \in RequestIds : UseCredits(i)
    \/ \E i \in RequestIds, ok \in BOOLEAN : BuildContext(i, ok)
    \/ \E i \in RequestIds, ok \in BOOLEAN : CreatePrompts(i, ok)
    \/ \E i \in RequestIds, failed \in 0..MaxImages : GenerateBatchReturns(i, failed)

OrchSpec == OrchInit /\ [][OrchNext]_vars

\* A batch on one account that the event loop may cancel at any moment.
CancelNext ==
    \/ JobStep
    \/ Collect
    \/ Tick
    \/ CancelAll

CancelSpec == LongInit /\ [][CancelNext]_vars


\* ------------------------------------------------------------------ claims
\* Jobs that have taken account a and not released it yet.
Holders(a) == {j \in JobIds : jobs[j].pc = "generating" /\ jobs[j].account = a}

\* C1: under every interleaving of acquires and releases, no account's
\* active_requests exceeds max_concurrent_per_account, and
\* available_capacity lies between 0 and total_capacity.
C1_CapRespected ==
    /\ \A a \in DOMAIN accounts :
          /\ accounts[a].active_requests >= 0
          /\ accounts[a].active_requests <= max_concurrent
    /\ available_capacity >= 0
    /\ available_capacity <= total_capacity

\* A job polls for an account while every account is at its cap: the last
\* free slot has been taken and a second acquire is being refused.
C1_Witness ==
    /\ \A a \in DOMAIN accounts : accounts[a].active_requests = max_concurrent
    /\ \E j \in JobIds : jobs[j].pc = "polling"

\* Positions of job index i in a list of results.
Places(list, i) == {k \in 1..Len(list) : list[k].index = i}

\* C2: when generate_batch returns, len(successful) + len(failed) = N and
\* every index 0..N-1 appears exactly once across the two lists, successful
\* jobs only in successful and failed jobs only in failed.
C2_Partition ==
    batch.pc = "returned" =>
        /\ Len(batch.successful) + Len(batch.failed) = total
        /\ \A i \in JobIds :
              /\ jobs[i].pc = "done"
              /\ Cardinality(Places(batch.successful, i)) = (IF jobs[i].success THEN 1 ELSE 0)
              /\ Cardinality(Places(batch.failed, i)) = (IF jobs[i].success THEN 0 ELSE 1)
        /\ \A k \in 1..Len(batch.successful) : batch.successful[k].success
        /\ \A k \in 1..Len(batch.failed) : ~batch.failed[k].success

\* A batch has returned with a success and a failure, the job with the
\* higher index having finished first.
C2_Witness ==
    /\ batch.pc = "returned"
    /\ batch.successful # <<>>
    /\ batch.failed # <<>>
    /\ \E i, k \in JobIds : i < k /\ jobs[i].success /\ ~jobs[k].success

\* C3: each successful acquire_account of a job is followed by exactly one
\* release_account of the same account before the job decides to retry or to
\* stop, and a job holds no account (counts toward no active_requests) while
\* it is in a backoff sleep or after its terminal outcome.
C3_AcquireReleaseCycle ==
    /\ \A j \in JobIds :
          /\ jobs[j].pc = "generating" =>
                /\ jobs[j].account \in DOMAIN accounts
                /\ jobs[j].releases = jobs[j].taken - 1
          /\ jobs[j].pc # "generating" =>
                /\ jobs[j].account = 0
                /\ jobs[j].releases = jobs[j].taken
    /\ \A a \in DOMAIN accounts :
          accounts[a].active_requests = Cardinality(Holders(a))

\* One job sleeps between attempts and another has finished, both after a
\* full acquire/release cycle, while nothing is held.
C3_Witness ==
    /\ \E j \in JobIds : jobs[j].pc = "sleeping" /\ jobs[j].releases >= 1
    /\ \E j \in JobIds : jobs[j].pc = "done" /\ jobs[j].releases >= 2
    /\ \A a \in DOMAIN accounts : accounts[a].active_requests = 0


\* Steps of job j, read off two successive states.
\* release_account is called for the account the job held.
Released(j) == jobs[j].pc = "generating" /\ jobs'[j].pc # "generating"

\* ... with success = False.
FailedRelease(j) == Released(j) /\ ~(jobs'[j].pc = "done" /\ jobs'[j].success)

\* acquire_account returns account a.
Acquired(j, a) ==
    /\ jobs[j].pc # "generating"
    /\ jobs'[j].pc = "generating"
    /\ jobs'[j].account = a

\* acquire_account returns None.
TimedOut(j) ==
    /\ jobs[j].pc = "polling"
    /\ jobs'[j].taken = jobs[j].taken
    /\ jobs'[j].pc = "done" \/ jobs'[j].acquires = jobs[j].acquires + 1

\* C4: after any release_account(c, success=False, rate_limited=True) at time
\* now, c.rate_limited_until is at least now + 45, whatever c's failure
\* counters were, and acquire_account never returns an account whose
\* rate_limited_until has not passed.
C4_RateLimitCooldown ==
    [][\A j \in JobIds :
          /\ (FailedRelease(j) /\ MentionsRate(jobs'[j].last_error)) =>
                accounts'[jobs[j].account].rate_limited_until >= now + 45
          /\ \A a \in DOMAIN accounts :
                Acquired(j, a) => accounts[a].rate_limited_until <= now]_vars

\* C5: no operation sets an account's rate_limited_until to a value smaller
\* than the one it had.
C5_CooldownOnlyForward ==
    [][\A a \in DOMAIN accounts :
          accounts'[a].rate_limited_until >= accounts[a].rate_limited_until]_vars

\* C6: the third of three failed releases in a row on an account (no
\* successful release between them, whatever their rate_limited flags)
\* leaves rate_limited_until >= now + 30; a successful release resets
\* consecutive_failures to 0 and leaves failures unchanged.
C6_ThreeFailuresInARow ==
    [][\A j \in JobIds :
          Released(j) =>
             LET a == jobs[j].account
             IN /\ (FailedRelease(j) /\ streak'[a] >= 3) =>
                      accounts'[a].rate_limited_until >= now + 30
                /\ ~FailedRelease(j) =>
                      /\ accounts'[a].consecutive_failures = 0
                      /\ accounts'[a].failures = accounts[a].failures]_vars

\* An account has just seen its third failed release in a row.
C6_Witness ==
    \E a \in DOMAIN accounts :
        /\ streak[a] = 3
        /\ accounts[a].failures = 3
        /\ accounts[a].rate_limited_until = now + 30

\* Error texts of the backend that hold a policy word, in whatever case.
C7_PolicyTexts == {ErrBlocked, ErrSafety, ErrInvalid}

\* C7: a job whose generation call returns an error holding "safety",
\* "blocked" or "invalid" (in any case) fails terminally at once: no backoff
\* sleep and no further acquire follows, so a job rejected on its first call
\* makes exactly one generation attempt although retries remain.
C7_PolicyStopsRetrying ==
    \A j \in JobIds :
        (jobs[j].gen_calls >= 1 /\ jobs[j].last_error \in C7_PolicyTexts) =>
            /\ jobs[j].pc = "done"
            /\ ~jobs[j].success
            /\ jobs[j].acquires = jobs[j].attempt + 1
            /\ Len(jobs[j].sleeps) = jobs[j].gen_calls - 1
            /\ jobs[j].attempt = 0 =>
                  /\ jobs[j].gen_calls = 1
                  /\ jobs[j].acquires = 1
                  /\ jobs[j].sleeps = <<>>

\* A job was rejected on its first generation call and is done.
C7_Witness ==
    \E j \in JobIds :
        /\ jobs[j].pc = "done"
        /\ jobs[j].last_error = ErrBlocked
        /\ jobs[j].attempt = 0
        /\ jobs[j].gen_calls = 1
        /\ jobs[j].sleeps = <<>>

\* C8: a job whose generation call always returns a transient error (no
\* policy word) fails after exactly 3 attempts, having slept 5 s after the
\* first and 10 s after the second, and not after the last.
C8_TransientThreeAttempts ==
    \A j \in JobIds :
        /\ jobs[j].gen_calls <= 3
        /\ jobs[j].releases = 3 => jobs[j].pc = "done"
        /\ (/\ jobs[j].pc = "done"
            /\ ~jobs[j].success
            /\ jobs[j].acquires = jobs[j].taken
            /\ jobs[j].last_error \notin C7_PolicyTexts) =>
               /\ jobs[j].gen_calls = 3
               /\ jobs[j].releases = 3
               /\ jobs[j].sleeps = <<5, 10>>

\* A job has failed three generation calls with the same transient error.
C8_Witness ==
    \E j \in JobIds :
        /\ jobs[j].pc = "done"
        /\ jobs[j].gen_calls = 3
        /\ jobs[j].last_error = ErrNoImage
        /\ jobs[j].sleeps = <<5, 10>>

\* Results of job index i that generate_batch holds or is about to read.
ResultsOf(i) ==
    {r \in {queue[k] : k \in 1..Len(queue)}
           \cup {batch.failed[k] : k \in 1..Len(batch.failed)}
           \cup {batch.successful[k] : k \in 1..Len(batch.successful)} :
        r.index = i}

\* C9: an acquire_account that returns None uses up one attempt: a job that
\* never obtains an account fails after exactly max_retries (3) acquire
\* attempts, without any generation call or release_account, with the error
\* "No available API accounts".
C9_AcquireFailureConsumesAttempt ==
    \A j \in JobIds :
        /\ jobs[j].pc # "pending" => jobs[j].acquires = jobs[j].attempt + 1
        /\ jobs[j].acquires <= 3
        /\ (jobs[j].pc = "done" /\ jobs[j].taken = 0) =>
              /\ ~jobs[j].success
              /\ jobs[j].acquires = 3
              /\ jobs[j].gen_calls = 0
              /\ jobs[j].releases = 0
              /\ jobs[j].last_error = NoAccountError
              /\ \A r \in ResultsOf(j) : ~r.success /\ r.error = NoAccountError

\* A job is done without ever having obtained an account.
C9_Witness ==
    \E j \in JobIds :
        /\ jobs[j].pc = "done"
        /\ jobs[j].taken = 0
        /\ ResultsOf(j) # {}

\* C10 as claimed: every retry (the next acquire after a failed attempt,
\* whether the generation failed or no account could be acquired) starts
\* from a backoff sleep of retry_delay * (attempt + 1) seconds.
C10_SleepBeforeEveryRetry ==
    [][\A j \in JobIds :
          jobs'[j].attempt = jobs[j].attempt + 1 =>
              /\ jobs[j].pc = "sleeping"
              /\ now >= jobs[j].wake_at]_vars

\* C10, amended: after a failed generation call that is neither a policy
\* rejection nor the last allowed attempt the job sleeps
\* retry_delay * (attempt + 1) seconds (5 s, then 10 s) before its next
\* acquire; after an acquire_account that returned None the next acquire
\* follows at once, with no sleep.
C10_BackoffAfterGenerationFailure ==
    [][\A j \in JobIds :
          /\ (/\ FailedRelease(j)
              /\ jobs'[j].last_error \notin C7_PolicyTexts
              /\ jobs[j].attempt < 2) =>
                /\ jobs'[j].pc = "sleeping"
                /\ jobs'[j].wake_at = now + 5 * (jobs[j].attempt + 1)
                /\ jobs'[j].sleeps = Append(jobs[j].sleeps, 5 * (jobs[j].attempt + 1))
          /\ (jobs[j].pc = "sleeping" /\ jobs'[j].pc # "sleeping") =>
                /\ now >= jobs[j].wake_at
                /\ jobs'[j].attempt = jobs[j].attempt + 1
                /\ jobs'[j].acquires = jobs[j].acquires + 1
          /\ jobs'[j].pc = "sleeping" =>
                jobs[j].pc = "sleeping" \/ FailedRelease(j)
          /\ TimedOut(j) =>
                /\ jobs'[j].sleeps = jobs[j].sleeps
                /\ jobs'[j].pc # "sleeping"
                /\ jobs[j].attempt < 2 =>
                      /\ jobs'[j].attempt = jobs[j].attempt + 1
                      /\ jobs'[j].acquires = jobs[j].acquires + 1]_vars

\* One job is in its second backoff sleep (10 s); another has retried right
\* after an acquire timeout, without having slept.
C10_Witness ==
    /\ \E j \in JobIds :
          /\ jobs[j].pc = "sleeping"
          /\ jobs[j].sleeps = <<5, 10>>
          /\ jobs[j].wake_at > now
    /\ \E j \in JobIds :
          /\ jobs[j].acquires = 2
          /\ jobs[j].taken <= 1
          /\ jobs[j].sleeps = <<>>

\* C11: a failed generation result is released with rate_limited = true
\* exactly when its text contains "rate" (in any case) or "429": short of
\* the third failure in a row the account's cooldown then ends 45 s after
\* the release, and is left as it was otherwise.
C11_RateOr429 ==
    [][\A j \in JobIds :
          FailedRelease(j) =>
              LET a == jobs[j].account
                  e == jobs'[j].last_error
              IN accounts'[a].consecutive_failures < FailureThreshold =>
                    IF Contains(Lower(e), TxtRate) \/ Contains(e, Txt429)
                    THEN accounts'[a].rate_limited_until = now + RateLimitCooldown
                    ELSE accounts'[a].rate_limited_until
                            = accounts[a].rate_limited_until]_vars

\* C12: with 5 prompts on 2 accounts of 2 slots each, at most 4 jobs are
\* between acquire and release at once, and once all five jobs have started
\* a generation call some job has released its account.
C12_FourAtOnce ==
    (Len(accounts) = 2 /\ max_concurrent = 2 /\ total = 5) =>
        /\ Cardinality({j \in JobIds : jobs[j].pc = "generating"}) <= 4
        /\ (\A j \in JobIds : jobs[j].gen_calls >= 1) =>
              \E k \in JobIds : jobs[k].releases >= 1

\* Four jobs hold the four slots after all five have had one.
C12_Witness ==
    /\ Len(accounts) = 2 /\ max_concurrent = 2 /\ total = 5
    /\ Cardinality({j \in JobIds : jobs[j].pc = "generating"}) = 4
    /\ \A j \in JobIds : jobs[j].gen_calls >= 1

\* C13: with a progress callback and N prompts, the callback is invoked once
\* per completed job in completion order, with completed = 1, 2, ..., N and
\* total = N, N times by the time generate_batch returns; each invocation is
\* awaited before the next completion is processed, so no two overlap.
C13_ProgressCalls ==
    /\ [](batch.on_progress =>
            /\ Len(batch.calls) = batch.completed
            /\ \A k \in 1..Len(batch.calls) :
                  /\ batch.calls[k].completed = k
                  /\ batch.calls[k].total = total
            /\ batch.in_callback = (IF batch.pc = "progress" THEN 1 ELSE 0)
            /\ batch.pc = "returned" => Len(batch.calls) = total)
    /\ [][/\ batch.calls' # batch.calls =>
                /\ batch.in_callback = 0
                /\ queue # <<>>
                /\ batch.calls' = Append(batch.calls,
                                         [completed |-> batch.completed + 1,
                                          total |-> total,
                                          index |-> Head(queue).index])
           /\ \A j \in JobIds :
                (jobs[j].pc # "done" /\ jobs'[j].pc = "done") =>
                    /\ Len(queue') = Len(queue) + 1
                    /\ queue'[Len(queue')].index = j
                    /\ SubSeq(queue', 1, Len(queue)) = queue]_vars

\* A batch of two returned after two invocations of the callback.
C13_Witness ==
    /\ batch.on_progress
    /\ batch.pc = "returned"
    /\ total = 2
    /\ Len(batch.calls) = 2

\* C14: provided every generation call and every progress callback returns,
\* every job eventually reaches a terminal state and generate_batch
\* eventually returns, with every job that did not succeed (its retries
\* exhausted or cut short) in `failed`.
C14_Terminates ==
    <>(/\ batch.pc = "returned"
       /\ \A j \in JobIds :
             /\ jobs[j].pc = "done"
             /\ ~jobs[j].success =>
                   \E k \in 1..Len(batch.failed) : batch.failed[k].index = j)

\* generate_batch has returned a job that failed max_retries generation calls.
C14_Witness ==
    /\ batch.pc = "returned"
    /\ \E j \in JobIds :
          /\ jobs[j].pc = "done"
          /\ ~jobs[j].success
          /\ jobs[j].gen_calls = max_retries
          /\ \E k \in 1..Len(batch.failed) : batch.failed[k].index = j

\* C15: when generate_batch returns, `successful` and `failed` are each in
\* strictly ascending order of index, whatever the order of completion.
C15_SortedByIndex ==
    batch.pc = "returned" =>
        /\ \A k \in 1..(Len(batch.successful) - 1) :
              batch.successful[k].index < batch.successful[k + 1].index
        /\ \A k \in 1..(Len(batch.failed) - 1) :
              batch.failed[k].index < batch.failed[k + 1].index

\* Two jobs that finished in descending order of index were returned in
\* one list.
C15_Witness ==
    /\ batch.pc = "returned"
    /\ Len(batch.calls) = 2
    /\ batch.calls[1].index > batch.calls[2].index
    /\ Len(batch.successful) = 2 \/ Len(batch.failed) = 2

ReturnedNone(j) ==
    /\ jobs[j].pc = "polling"
    /\ jobs'[j].pc = "done" \/ jobs'[j].attempt = jobs[j].attempt + 1

\* C17: acquire_account returns None only once its 60 s are over, no poll
\* before that having found an account out of cooldown and under its cap
\* (the clock never passes a waiting job while there is one), and returning
\* None changes no field of any account: after the step the pool is as it
\* was, but for the slot the job's next acquire may take at once.
C17_NoneLeavesPool ==
    [][\A j \in JobIds :
          /\ ReturnedNone(j) =>
                /\ now - jobs[j].start_time >= 60
                /\ IF jobs'[j].pc = "generating"
                   THEN accounts' =
                          [accounts EXCEPT
                             ![jobs'[j].account].active_requests = @ + 1,
                             ![jobs'[j].account].total_requests = @ + 1]
                   ELSE accounts' = accounts
          /\ (jobs[j].pc = "polling" /\ now' # now) =>
                \A a \in DOMAIN accounts :
                    \/ accounts[a].rate_limited_until > now
                    \/ accounts[a].active_requests >= max_concurrent]_vars

\* A job whose acquire has returned None.
C17_Witness ==
    \E j \in JobIds :
        /\ jobs[j].last_error = NoAccountError
        /\ jobs[j].acquires > jobs[j].taken
        /\ jobs[j].pc \in {"polling", "generating", "done"}
\* Payload bytes of an archive.
RECURSIVE ArchiveSize(_)
ArchiveSize(zip) ==
    IF zip = <<>> THEN 0 ELSE Head(zip).size + ArchiveSize(Tail(zip))

\* The payloads handed to the packager: the results with image data.
Payloads == SelectSeq(pack.results, LAMBDA r : r.size > 0)

\* C18: the payloads of every returned archive add up to at most the
\* threshold, 90% of the 50 MB maximum, unless the archive holds one payload
\* alone, which then is larger than the threshold on its own; every payload
\* sits whole in its archive.
C18_ArchiveBound ==
    pack.pc = "returned" =>
        \A z \in 1..Len(pack.zips) :
            /\ \/ ArchiveSize(pack.zips[z]) <= 45 * 1024 * 1024
               \/ Len(pack.zips[z]) = 1
            /\ \A k \in 1..Len(pack.zips[z]) :
                  \E i \in 1..Len(Payloads) :
                      /\ pack.zips[z][k].size = Payloads[i].size
                      /\ pack.zips[z][k].name = FileName(Payloads[i].index)
                      /\ Payloads[i].size > 45 * 1024 * 1024 =>
                            Len(pack.zips[z]) = 1

\* An oversize payload between payloads that fit: three archives at least,
\* one of them with the oversize payload alone, one with several payloads.
C18_Witness ==
    /\ pack.pc = "returned"
    /\ \E z \in 1..Len(pack.zips) :
          /\ Len(pack.zips[z]) = 1
          /\ ArchiveSize(pack.zips[z]) > 45 * 1024 * 1024
    /\ \E z \in 1..Len(pack.zips) : Len(pack.zips[z]) >= 2
    /\ Payloads[1].size <= 45 * 1024 * 1024

\* Entries of the archives one after the other.
RECURSIVE Flatten(_)
Flatten(zips) ==
    IF zips = <<>> THEN <<>> ELSE Head(zips) \o Flatten(Tail(zips))

\* Payload bytes of the first k entries of an archive.
PrefixSize(zip, k) == ArchiveSize(SubSeq(zip, 1, k))

\* C19: packing is greedy and keeps the order: the archives' entries, one
\* archive after the other, are the payloads in their order; an archive is
\* followed by another exactly when the next payload would have pushed its
\* size above the threshold, and a payload joins the open archive whenever
\* it does not.  Payloads of 10, 10, 30 and 5 MB against the 45 MB
\* threshold give the two archives {10, 10} and {30, 5}.
C19_Greedy ==
    pack.pc = "returned" =>
        /\ Flatten(pack.zips) = [i \in 1..Len(Payloads) |-> Entry(Payloads[i])]
        /\ \A z \in 1..(Len(pack.zips) - 1) :
              /\ pack.zips[z + 1] # <<>>
              /\ ArchiveSize(pack.zips[z]) + pack.zips[z + 1][1].size
                    > 45 * 1024 * 1024
        /\ \A z \in 1..Len(pack.zips) :
              \A k \in 2..Len(pack.zips[z]) :
                  PrefixSize(pack.zips[z], k) <= 45 * 1024 * 1024
        /\ [i \in 1..Len(Payloads) |-> Payloads[i].size]
                = <<10 * MB, 10 * MB, 30 * MB, 5 * MB>> =>
              [z \in 1..Len(pack.zips) |->
                  [k \in 1..Len(pack.zips[z]) |-> pack.zips[z][k].size]]
                = << <<10 * MB, 10 * MB>>, <<30 * MB, 5 * MB>> >>

\* The packager has returned two archives for payloads of 10, 10, 30, 5 MB.
C19_Witness ==
    /\ pack.pc = "returned"
    /\ [i \in 1..Len(Payloads) |-> Payloads[i].size]
          = <<10 * MB, 10 * MB, 30 * MB, 5 * MB>>
    /\ Len(pack.zips) = 2

\* C20: for a list with at least one payload, also one whose first payload
\* alone exceeds the threshold, no returned archive has zero payload
\* entries.
C20_NoEmptyArchive ==
    (pack.pc = "returned" /\ Payloads # <<>>) =>
        \A z \in 1..Len(pack.zips) : pack.zips[z] # <<>>

C26_LastErrorRetained ==
    \A j \in JobIds :
        (jobs[j].pc = "done" /\ ~jobs[j].success) =>
            LET e == IF jobs[j].attempt_error = None THEN UnknownError
                     ELSE jobs[j].attempt_error
            IN /\ jobs[j].last_error = e
               /\ \A r \in ResultsOf(j) : ~r.success /\ r.error = e

\* A job has failed for good on a generation error after an attempt that
\* ended in an acquire timeout.
C26_Witness ==
    \E j \in JobIds :
        /\ jobs[j].pc = "done"
        /\ ~jobs[j].success
        /\ jobs[j].acquires > jobs[j].taken
        /\ jobs[j].gen_calls >= 1
        /\ jobs[j].last_error \in {ErrNoImage, ErrRate}
        /\ ResultsOf(j) # {}

\* C27: driven by the engine, each account's active_requests is exactly the
\* number of jobs that have acquired it and not released it yet; every
\* release finds the counter at 1 or more and takes exactly 1 off, so the
\* floor at 0 never acts; and when every job is terminal every account's
\* active_requests is 0.
C27_ExactSlots ==
    /\ [](/\ \A a \in DOMAIN accounts :
                accounts[a].active_requests
                  = Cardinality({j \in JobIds : /\ jobs[j].taken > jobs[j].releases
                                                /\ jobs[j].account = a})
          /\ (\A j \in JobIds : jobs[j].pc = "done") =>
                \A a \in DOMAIN accounts : accounts[a].active_requests = 0)
    /\ [][\A j \in JobIds :
            jobs'[j].releases = jobs[j].releases + 1 =>
                LET a == jobs[j].account
                IN /\ accounts[a].active_requests >= 1
                   /\ accounts'[a].active_requests
                         = accounts[a].active_requests - 1]_vars

\* Every job of a batch of two is terminal after four acquisitions or more
\* on accounts of two slots.
C27_Witness ==
    /\ total = 2
    /\ \A j \in JobIds : jobs[j].pc = "done"
    /\ jobs[0].taken + jobs[1].taken >= 4
    /\ \A a \in DOMAIN accounts : accounts[a].active_requests = 0
    /\ max_concurrent = 2
\* Places (archive, entry) where the payload of result index i is stored.
StoredAt(i) ==
    {p \in {<<z, k>> : z \in 1..Len(pack.zips), k \in 1..MaxResults} :
        /\ p[2] <= Len(pack.zips[p[1]])
        /\ pack.zips[p[1]][p[2]].name = FileName(i)}

\* C28: the packager neither loses, duplicates nor reorders payloads: every
\* result with image data is stored in exactly one place, with all of its
\* bytes, results without image data in none, nothing else is stored, and
\* of two results with data the earlier one of the list is stored in an
\* earlier archive or earlier in the same archive.
C28_NoLossNoReorder ==
    pack.pc = "returned" =>
        /\ \A i \in 1..Len(pack.results) :
              LET r == pack.results[i]
              IN IF r.size > 0
                 THEN /\ Cardinality(StoredAt(r.index)) = 1
                      /\ \A p \in StoredAt(r.index) :
                            pack.zips[p[1]][p[2]].size = r.size
                 ELSE StoredAt(r.index) = {}
        /\ \A z \in 1..Len(pack.zips) : \A k \in 1..Len(pack.zips[z]) :
              \E i \in 1..Len(pack.results) :
                  pack.zips[z][k].name = FileName(pack.results[i].index)
        /\ \A i, j \in 1..Len(pack.results) :
              i < j =>
                  \A p \in StoredAt(pack.results[i].index),
                     q \in StoredAt(pack.results[j].index) :
                      \/ p[1] < q[1]
                      \/ p[1] = q[1] /\ p[2] < q[2]

\* Three payloads or more, with a result without image data among the
\* results, have gone into two archives or more.
C28_Witness ==
    /\ pack.pc = "returned"
    /\ Len(pack.zips) >= 2
    /\ Len(Payloads) >= 3
    /\ Len(Payloads) < Len(pack.results)
\* Entries of an archive that are named README.txt.
Readmes(zip) == {k \in 1..Len(zip) : zip[k].name = <<"R","E","A","D","M","E",".","t","x","t">>}

\* C21: every archive the packager returns, on the single-archive path and
\* on the split path alike, holds exactly one readme entry, carrying the
\* generation id and the number of items.
C21_ReadmeInEveryArchive ==
    pack.pc = "returned" =>
        \A z \in 1..Len(pack.zips) :
            /\ Cardinality(Readmes(pack.zips[z])) = 1
            /\ \A k \in Readmes(pack.zips[z]) :
                  pack.zips[z][k].generation_id = pack.generation_id
\* Entries of the archives that hold a payload, one archive after the other.
Stored == SelectSeq(Flatten(pack.zips), LAMBDA e : e.name # ReadmeName)

\* C22: in the archives of split_if_needed and of _create_zip alike, the
\* entry of a payload is named after the result's own index, image_ with
\* index + 1 in three digits and .png, whatever its place in the list or in
\* the archives; packing the same results again gives the same names; and
\* no two entries of the archives of one batch share a name.
C22_NameFromIndex ==
    pack.pc \in {"returned", "delivered"} =>
        /\ Len(Stored) = Len(Payloads)
        /\ \A i \in 1..Len(Stored) :
              Stored[i].name =
                  <<"i","m","a","g","e","_","0","0">>
                  \o <<Digits[Payloads[i].index + 2]>>
                  \o <<".","p","n","g">>
        /\ \A i, j \in 1..Len(Flatten(pack.zips)) :
              i # j => Flatten(pack.zips)[i].name # Flatten(pack.zips)[j].name
        /\ pack.pc = "returned" => pack.zips = split_if_needed(pack.results)
        /\ pack.pc = "delivered" =>
              pack.zips = <<create_zip(pack.results, pack.generation_id)>>
                \/ pack.results = <<>>

\* Two archives or more hold payloads whose indexes are not their places in
\* the list: the first result of the list has index 1 or more.
C22_Witness ==
    /\ pack.pc = "returned"
    /\ Len(pack.zips) >= 2
    /\ Len(Payloads) >= 2
    /\ pack.results[1].index >= 1

\* C29: the archive deliver_batch sends obeys the packager's size bound:
\* its payloads add up to at most the threshold, 90% of 50 MB, unless it
\* holds a single payload.
C29_DeliveredArchiveBound ==
    pack.pc = "delivered" =>
        \A z \in 1..Len(pack.zips) :
            LET payloads == SelectSeq(pack.zips[z], LAMBDA e : e.name # ReadmeName)
            IN \/ ArchiveSize(payloads) <= 45 * 1024 * 1024
               \/ Len(payloads) = 1

\* C23: refund_credits is called at most once per request: with the number
\* of failed results when the batch completes with at least one failure,
\* with the whole image_count when build_context or create_prompts fails
\* (and generate_batch is then never called), and not at all when every job
\* succeeds or the request is still under way.
C23_OneRefund ==
    \A i \in RequestIds :
        LET r == orch.requests[i]
        IN /\ Len(r.refund_calls) <= 1
           /\ r.stage \in {"context", "prompts"} =>
                 /\ r.refund_calls = <<r.image_count>>
                 /\ r.engine_calls = 0
           /\ (r.pc = "done" /\ r.engine_calls > 0) =>
                 /\ r.engine_calls = 1
                 /\ r.refund_calls = IF r.failed > 0 THEN <<r.failed>> ELSE <<>>
           /\ (r.pc # "done" \/ r.stage = "credits") => r.refund_calls = <<>>

\* One request has lost some of its images and was refunded for them,
\* another was given up before the engine and refunded in full.
C23_Witness ==
    \E i, k \in RequestIds :
        /\ orch.requests[i].pc = "done"
        /\ orch.requests[i].failed > 0
        /\ orch.requests[i].successful > 0
        /\ orch.requests[i].refund_calls = <<orch.requests[i].failed>>
        /\ orch.requests[k].stage = "prompts"
        /\ orch.requests[k].refund_calls = <<orch.requests[k].image_count>>

\* C30: credits are conserved per request, however the process_generation
\* calls of one user interleave: a request that has reached the engine has
\* had exactly image_count credits deducted, the refunds of a request never
\* exceed what was deducted for it, and once the request has finished what
\* it was charged in the end is its number of successful images.
C30_CreditsConserved ==
    \A i \in RequestIds :
        LET r == orch.requests[i]
        IN /\ r.engine_calls > 0 => r.deducted = r.image_count
           /\ r.refunded <= r.deducted
           /\ r.pc = "done" => r.deducted - r.refunded = r.successful

\* C24: when the batch is cancelled, every unfinished job yields an outcome,
\* a job cancelled while it holds an account still releases it, and no
\* account's active_requests stays incremented.
C24_CancelReleases ==
    batch.pc = "cancelled" =>
        /\ \A j \in JobIds : jobs[j].pc = "done"
        /\ \A a \in DOMAIN accounts : accounts[a].active_requests = 0

====
